---------------------------- MODULE Spec2Model ----------------------------
(***************************************************************************)
(* The merge pipeline of the file-to-PDF combiner.                         *)
(*                                                                         *)
(*   generatePdfFromFiles  (pdf-lib variant, services/pdfService)          *)
(*   generatePdfFromSvgs   (jsPDF variant, the older service)              *)
(*   App                   (the session: working set of files, object      *)
(*                          URLs, the Merge button and its callback)       *)
(*                                                                         *)
(* Strings are sequences of one-character strings, so that trim,           *)
(* toLowerCase and endsWith are computed rather than assumed.  Every call  *)
(* into the host or a library that can reject or throw (file read, parse,  *)
(* page copy, image decode, embed, draw, text, save, download) is a        *)
(* nondeterministic choice between its outcomes.                           *)
(***************************************************************************)
EXTENDS Integers, Sequences, FiniteSets, TLC

(***************************************************************************)
(* Bounds of the model.                                                    *)
(***************************************************************************)
\* longest input list handed to one direct call of the pipeline
MaxFiles == 3
\* largest page count of a source document (0 = a document without pages)
MaxSrcPages == 2
\* object URLs one App session may create (also its longest working set)
MaxHandles == 2

(***************************************************************************)
(* Strings.                                                                *)
(***************************************************************************)
Upper == <<"A","B","C","D","E","F","G","H","I","J","K","L","M",
           "N","O","P","Q","R","S","T","U","V","W","X","Y","Z">>
Lower == <<"a","b","c","d","e","f","g","h","i","j","k","l","m",
           "n","o","p","q","r","s","t","u","v","w","x","y","z">>

ToLowerChar(c) ==
    IF \E k \in 1..Len(Upper) : Upper[k] = c
    THEN Lower[CHOOSE k \in 1..Len(Upper) : Upper[k] = c]
    ELSE c

\* String.prototype.toLowerCase
ToLowerCase(s) == [k \in 1..Len(s) |-> ToLowerChar(s[k])]

\* String.prototype.endsWith
EndsWith(s, suffix) ==
    /\ Len(s) >= Len(suffix)
    /\ SubSeq(s, Len(s) - Len(suffix) + 1, Len(s)) = suffix

\* the white space String.prototype.trim removes, of the characters names are
\* drawn from
IsSpace(c) == c \in {" ", "\t"}

RECURSIVE TrimStart(_)
TrimStart(s) ==
    IF s # <<>> /\ IsSpace(Head(s)) THEN TrimStart(Tail(s)) ELSE s

RECURSIVE TrimEnd(_)
TrimEnd(s) ==
    IF s # <<>> /\ IsSpace(s[Len(s)]) THEN TrimEnd(SubSeq(s, 1, Len(s) - 1)) ELSE s

\* String.prototype.trim
Trim(s) == TrimEnd(TrimStart(s))

\* s occurs in t as a contiguous run of characters
Contains(t, s) ==
    \E k \in 0..(Len(t) - Len(s)) : SubSeq(t, k + 1, k + Len(s)) = s

DotPdf == <<".", "p", "d", "f">>

(***************************************************************************)
(* Inputs.                                                                 *)
(***************************************************************************)
\* The (name, MIME type) pairs files are drawn from: an image, a document
\* declared by its type, and a document known only by its extension.
FileKinds ==
    { [name |-> <<"a", ".", "p", "n", "g">>,      type |-> "image/png"],
      [name |-> <<"b", ".", "p", "d", "f">>,      type |-> "application/pdf"],
      [name |-> <<"c", ".", "P", "D", "F">>,      type |-> ""] }

\* AppFile: id and url are created together, one per selected file; the
\* model uses the same number for both.
MkAppFile(n, kind) == [id |-> n, name |-> kind.name, type |-> kind.type]

PdfQuality == {"low", "medium", "high"}

Variants == {"pdflib", "jspdf"}

\* requested output names: blank, and one that already carries the extension
Filenames == { <<" ">>, <<"R", ".", "P", "D", "F">> }

\* intrinsic pixel sizes an image may report once loaded (0 = none)
ImgSizes == { <<0, 0>>, <<400, 100>> }

\* QUALITY_CONFIG[quality].scale; the two services differ on "high"
Scale(v, q) ==
    CASE q = "low" -> 1
      [] q = "medium" -> 2
      [] q = "high" -> IF v = "pdflib" THEN 3 ELSE 4

\* img.width || 595, img.height || 842
IntrinsicOr(n, dflt) == IF n = 0 THEN dflt ELSE n

\* the width and height processFileToImageBuffer / convertSvgToImage resolve with
BufferSize(size, v, q) ==
    << IntrinsicOr(size[1], 595) * Scale(v, q),
       IntrinsicOr(size[2], 842) * Scale(v, q) >>

\* the test on the declared type alone
IsPdfByType(f) == f.type = "application/pdf"

\* line 493: type-or-extension test that selects the document branch
IsPdf(f) ==
    f.type = "application/pdf" \/ EndsWith(ToLowerCase(f.name), DotPdf)

\* lines 558-561 / 141-144: the delivered file name
DefaultName(v) ==
    IF v = "pdflib"
    THEN <<"m","e","r","g","e","d","-","d","o","c","u","m","e","n","t">>
    ELSE <<"m","e","r","g","e","d","-","v","e","c","t","o","r","s">>

\* the extension compared as written, without toLowerCase
FinalFilenameCaseSensitive(filename, v) ==
    LET cleanFilename == IF Trim(filename) = <<>> THEN DefaultName(v) ELSE Trim(filename)
    IN  IF EndsWith(cleanFilename, DotPdf)
        THEN cleanFilename
        ELSE cleanFilename \o DotPdf

FinalFilename(filename, v) ==
    LET cleanFilename == IF Trim(filename) = <<>> THEN DefaultName(v) ELSE Trim(filename)
    IN  IF EndsWith(ToLowerCase(cleanFilename), DotPdf)
        THEN cleanFilename
        ELSE cleanFilename \o DotPdf

\* Math.round(((i + 1) / files.length) * 100), for done = i + 1 inputs of total
Percent(done, total) == (200 * done + total) \div (2 * total)

(***************************************************************************)
(* getPdfSizeEstimate.  Sizes are in KB (thousandths of the MB the code    *)
(* counts in), so that the arithmetic is on integers.  The text returned   *)
(* is kept as its parts: "~450 KB" is approx, whole 450, no tenth, unit    *)
(* KB; "~1.2 MB" is approx, whole 1, tenth 2, unit MB; "0 MB" is whole 0,  *)
(* no tenth, unit MB, not approx.                                          *)
(***************************************************************************)
\* sizeMap[quality] * 1000
SizeMapKB(q) ==
    CASE q = "low" -> 150
      [] q = "medium" -> 400
      [] q = "high" -> 1200

NoTenth == -1

SizeText(approx, whole, tenth, unit) ==
    [approx |-> approx, whole |-> whole, tenth |-> tenth, unit |-> unit]

\* the counts up to 80 whose product count * 0.15, a double, is at or above
\* the decimal that ends in 5 hundredths (7 * 0.15 is just above 1.05,
\* 9 * 0.15 just below 1.35, 15 * 0.15 is 2.25)
HalfGoesUp == {7, 15, 19, 25, 33, 35, 43, 45, 55, 61, 65, 71, 75}

\* x.toFixed(1) for x = kb / 1000, in tenths: the nearest tenth, and for
\* a decimal that ends in 5 hundredths the side its double lies on
ToFixed1(kb, up) ==
    IF (kb % 100 > 50) \/ (kb % 100 = 50 /\ up)
    THEN (kb \div 100) + 1
    ELSE kb \div 100

\* the count of zero treated like any other
GetPdfSizeEstimateNoZero(count, quality) ==
    LET estimatedTotalKB == count * SizeMapKB(quality)
        tenths == ToFixed1(estimatedTotalKB, count \in HalfGoesUp)
    IN  IF estimatedTotalKB < 1000
        THEN SizeText(TRUE, estimatedTotalKB, NoTenth, "KB")
        ELSE SizeText(TRUE, tenths \div 10, tenths % 10, "MB")

\* lines 570-589 (and the jsPDF service's copy)
GetPdfSizeEstimate(count, quality) ==
    IF count = 0 THEN SizeText(FALSE, 0, NoTenth, "MB")
    ELSE LET estimatedTotalKB == count * SizeMapKB(quality)
             tenths == ToFixed1(estimatedTotalKB, count \in HalfGoesUp)
         IN  IF estimatedTotalKB < 1000
             THEN SizeText(TRUE, estimatedTotalKB, NoTenth, "KB")
             ELSE SizeText(TRUE, tenths \div 10, tenths % 10, "MB")

(***************************************************************************)
(* Pages of the output document.                                           *)
(***************************************************************************)
\* Lengths on a page are fractions <<numerator, denominator>> in lowest
\* terms, so that equal lengths are equal values.
RECURSIVE Gcd(_, _)
Gcd(a, b) == IF b = 0 THEN a ELSE Gcd(b, a % b)

Frac(n, d) == << n \div Gcd(n, d), d \div Gcd(n, d) >>

\* a / b <= c / d
FracLeq(a, b) == a[1] * b[2] <= b[1] * a[2]

\* page.getSize() of an A4 page in hundredths of a point (line 515: "A4 is
\* [595.28, 841.89]"); pdf.internal.pageSize of the jsPDF document in mm
\* ("Default A4: 210mm x 297mm")
PageSize(v) == IF v = "pdflib" THEN <<59528, 84189>> ELSE <<210, 297>>

\* (page - length) / 2
Margin(page, length) == Frac(page * length[2] - length[1], 2 * length[2])

\* lines 519-531: imageEmbed.scaleToFit(pageWidth, pageHeight) scales the
\* image by the smaller of pageWidth / width and pageHeight / height; the
\* image is then centred
ScaleToFit(width, height, pageWidth, pageHeight) ==
    LET imgWidthScale == Frac(pageWidth, width)
        imgHeightScale == Frac(pageHeight, height)
        scale == IF FracLeq(imgWidthScale, imgHeightScale) THEN imgWidthScale
                                                           ELSE imgHeightScale
        imgDims == [width |-> Frac(width * scale[1], scale[2]),
                    height |-> Frac(height * scale[1], scale[2])]
    IN  [x |-> Margin(pageWidth, imgDims.width),
         y |-> Margin(pageHeight, imgDims.height),
         width |-> imgDims.width,
         height |-> imgDims.height]

\* the image at the page's width whatever its height comes to
FitToWidth(width, height, pageWidth, pageHeight) ==
    LET ratio == Frac(width, height)
        finalWidth == Frac(pageWidth, 1)
        finalHeight == Frac(pageWidth * ratio[2], ratio[1])
    IN  [x |-> Margin(pageWidth, finalWidth),
         y |-> Margin(pageHeight, finalHeight),
         width |-> finalWidth,
         height |-> finalHeight]

\* jsPDF service, lines 109-125: the page's width first, the page's height
\* instead when that comes out too tall; then centred
FitToPage(width, height, pageWidth, pageHeight) ==
    LET ratio == Frac(width, height)
        tooTall == pageWidth * ratio[2] > pageHeight * ratio[1]
        finalWidth == IF tooTall THEN Frac(pageHeight * ratio[1], ratio[2])
                                 ELSE Frac(pageWidth, 1)
        finalHeight == IF tooTall THEN Frac(pageHeight, 1)
                                  ELSE Frac(pageWidth * ratio[2], ratio[1])
    IN  [x |-> Margin(pageWidth, finalWidth),
         y |-> Margin(pageHeight, finalHeight),
         width |-> finalWidth,
         height |-> finalHeight]

\* where the service v draws an image of the given pixel size
Placement(v, size) ==
    IF v = "pdflib"
    THEN ScaleToFit(size[1], size[2], PageSize(v)[1], PageSize(v)[2])
    ELSE FitToPage(size[1], size[2], PageSize(v)[1], PageSize(v)[2])

\* pages that carry no image
NoPlace == [x |-> <<0, 1>>, y |-> <<0, 1>>, width |-> <<0, 1>>, height |-> <<0, 1>>]

\* owner: the loop iteration (1-based input position) that appended the page
Page(owner, kind, size, src, w, h, text, at) ==
    [owner |-> owner, kind |-> kind, size |-> size, src |-> src,
     w |-> w, h |-> h, text |-> text, at |-> at]

\* a page copied from page k of the source document, at its own size
CopiedPage(owner, k) == Page(owner, "copied", "source", k, 0, 0, <<>>, NoPlace)

\* addPage(PageSizes.A4) / pdf.addPage(): a fresh page with nothing on it
BlankPage(owner) == Page(owner, "blank", "A4", 0, 0, 0, <<>>, NoPlace)

\* a page with the rasterized image (size: its pixel width and height)
\* drawn on it in the rectangle at
ImagePage(owner, size, at) ==
    Page(owner, "image", "A4", 0, size[1], size[2], <<>>, at)

\* the text line of the error page
ErrorText(v, name) ==
    (IF v = "pdflib" THEN <<"Error processing file: ">>
                     ELSE <<"Error loading image: ">>) \o name

PlaceholderPage(owner, v, name) ==
    Page(owner, "placeholder", "A4", 0, 0, 0, ErrorText(v, name), NoPlace)

\* the page put in front of the document instead of at its end
AddPageFront(doc, page) == <<page>> \o doc

\* mergedPdf.addPage(page)
AddPage(doc, page) == Append(doc, page)

\* the source's pages taken last to first
CopiedPagesReversed(owner, n) == [k \in 1..n |-> CopiedPage(owner, n + 1 - k)]

\* srcPdf.getPageIndices() copied and added one by one in that order
CopiedPages(owner, n) == [k \in 1..n |-> CopiedPage(owner, k)]

\* copiedPages.forEach((page) => mergedPdf.addPage(page))
AddPages(doc, newPages) == doc \o newPages

\* jsPDF draws on the current (last) page
ReplaceLast(doc, page) == [doc EXCEPT ![Len(doc)] = page]


(***************************************************************************)
(* State.                                                                  *)
(***************************************************************************)
VARIABLES
    \* ---- App (the session) ----
    files,           \* useState<AppFile[]>: the working set, in list order
    isGenerating,    \* useState(false)
    progress,        \* useState(0): what the progress callback last set
    sortOrder,       \* 'asc' | 'desc' | 'none'
    mounted,         \* the App component is mounted (the session is open)
    nextId,          \* next object URL / id to hand out
    liveUrls,        \* object URLs created and not yet revoked
    alerts,          \* alert() boxes shown since the last Merge click
    \* ---- one call of the service ----
    variant,         \* which service runs: "pdflib" or "jspdf"
    pc,              \* where the call stands
    runFiles,        \* parameter files
    runQuality,      \* parameter quality
    runFilename,     \* parameter filename
    hasProgress,     \* whether onProgress was passed
    i,               \* loop index (0-based, as in the code)
    docCreated,      \* the output document object exists
    pages,           \* pages of the output document
    srcPdf,          \* page count of the loaded source document, -1 = none
    buf,             \* size of the buffer the rasterizer resolved with
    err,             \* which step of this iteration raised, "none" = none
    escaped,         \* where the error that left the call was raised
    emitted,         \* values passed to onProgress, in call order
    result,          \* per input: "Pending", "Succeeded" or "Recovered"
    attempts,        \* per input: how often its iteration was entered
    delivered,       \* (pages, file name) handed to the download step
    \* ---- the size line of the App ----
    estCount,        \* getPdfSizeEstimate's argument count (files.length)
    estQuality,      \* getPdfSizeEstimate's argument quality
    estimatedSize    \* line 214: what getPdfSizeEstimate returned

appVars == << files, isGenerating, progress, sortOrder, mounted, nextId,
              liveUrls, alerts >>

runVars == << variant, pc, runFiles, runQuality, runFilename, hasProgress,
              i, docCreated, pages, srcPdf, buf, err, escaped, emitted,
              result, attempts, delivered >>

estVars == << estCount, estQuality, estimatedSize >>

vars == << appVars, runVars, estVars >>

\* files[i]
Cur == runFiles[i + 1]

NoBuf == <<0, 0>>

(***************************************************************************)
(* generatePdfFromFiles / generatePdfFromSvgs, one action per step between *)
(* two suspension points.                                                  *)
(***************************************************************************)
\* the early return left out
NeverEmptyRun(fs) == FALSE

\* line 484 / 84: if (files.length === 0) return;
IsEmptyRun(fs) == Len(fs) = 0

\* the loop index not advanced: the same input is entered again
SameIndex(k) == k

\* the for loop's i++
NextIndex(k) == k + 1

\* lines 484-489 / 84-96: early return, or create the output document.
\* new jsPDF() comes with its first page; PDFDocument.create() has none.
Enter ==
    /\ pc = "entry"
    /\ mounted
    /\ IF IsEmptyRun(runFiles)
       THEN /\ pc' = "returned"
            /\ UNCHANGED << i, docCreated, pages, result, attempts >>
       ELSE /\ pc' = "loop"
            /\ i' = 0
            /\ docCreated' = TRUE
            /\ pages' = IF variant = "jspdf" THEN <<BlankPage(1)>> ELSE <<>>
            /\ result' = [k \in 1..Len(runFiles) |-> "Pending"]
            /\ attempts' = [k \in 1..Len(runFiles) |-> 0]
    /\ UNCHANGED << estVars, appVars, variant, runFiles, runQuality, runFilename,
                    hasProgress, srcPdf, buf, err, escaped, emitted, delivered >>

\* lines 491-496 / 98-106: loop test, then routing (pdf-lib) or the page for
\* the next image (jsPDF).  Leaving the loop leads to the finisher.
LoopHead ==
    /\ pc = "loop"
    /\ mounted
    /\ srcPdf' = -1
    /\ buf' = NoBuf
    /\ err' = "none"
    /\ IF i < Len(runFiles)
       THEN /\ attempts' = [attempts EXCEPT ![i + 1] = @ + 1]
            /\ IF variant = "pdflib"
               THEN /\ pc' = IF IsPdf(Cur) THEN "read" ELSE "decode"
                    /\ pages' = pages
               ELSE /\ pc' = "decode"
                    /\ pages' = IF i > 0 THEN AddPage(pages, BlankPage(i + 1))
                                         ELSE pages
       ELSE /\ pc' = IF variant = "pdflib" THEN "save" ELSE "deliver"
            /\ UNCHANGED << attempts, pages >>
    /\ UNCHANGED << estVars, appVars, variant, runFiles, runQuality, runFilename,
                    hasProgress, i, docCreated, escaped, emitted, result,
                    delivered >>

\* line 498: await readFileAsArrayBuffer(file.file)
ReadFile ==
    /\ pc = "read"
    /\ mounted
    /\ \/ /\ pc' = "load"
          /\ err' = err
       \/ /\ pc' = "catch"
          /\ err' = "read"
    /\ UNCHANGED << estVars, appVars, variant, runFiles, runQuality, runFilename,
                    hasProgress, i, docCreated, pages, srcPdf, buf, escaped,
                    emitted, result, attempts, delivered >>

\* line 500: await PDFDocument.load(fileBuffer)
LoadPdf ==
    /\ pc = "load"
    /\ mounted
    /\ \/ /\ \E n \in 0..MaxSrcPages : srcPdf' = n
          /\ pc' = "copy"
          /\ err' = err
       \/ /\ pc' = "catch"
          /\ err' = "parse"
          /\ srcPdf' = srcPdf
    /\ UNCHANGED << estVars, appVars, variant, runFiles, runQuality, runFilename,
                    hasProgress, i, docCreated, pages, buf, escaped, emitted,
                    result, attempts, delivered >>

\* lines 502-504: copyPages, then addPage for each copied page; the try
\* block ends here for a document.
CopyPages ==
    /\ pc = "copy"
    /\ mounted
    /\ \/ /\ pages' = AddPages(pages, CopiedPages(i + 1, srcPdf))
          /\ result' = [result EXCEPT ![i + 1] = "Succeeded"]
          /\ pc' = "progress"
          /\ err' = err
       \/ /\ pc' = "catch"
          /\ err' = "copy"
          /\ UNCHANGED << pages, result >>
    /\ UNCHANGED << estVars, appVars, variant, runFiles, runQuality, runFilename,
                    hasProgress, i, docCreated, srcPdf, buf, escaped, emitted,
                    attempts, delivered >>

\* lines 411-467 / 16-76 awaited at line 509 / 107.  The promise resolves
\* from onload, rejects from onerror or when there is no canvas context, and
\* stays pending when onload itself throws (drawing or encoding the canvas).
\* A revoked object URL cannot load.
DecodeImageOf(sizes) ==
    /\ pc = "decode"
    /\ mounted
    /\ \/ /\ Cur.id \in liveUrls
          /\ \E size \in sizes : buf' = BufferSize(size, variant, runQuality)
          /\ pc' = IF variant = "pdflib" THEN "embed" ELSE "draw"
          /\ err' = err
       \/ /\ pc' = "catch"
          /\ err' = "decode"
          /\ buf' = buf
       \/ /\ Cur.id \in liveUrls
          /\ pc' = "hung"
          /\ UNCHANGED << err, buf >>
    /\ UNCHANGED << estVars, appVars, variant, runFiles, runQuality, runFilename,
                    hasProgress, i, docCreated, pages, srcPdf, escaped,
                    emitted, result, attempts, delivered >>

\* line 512: await mergedPdf.embedJpg(buffer)
EmbedJpg ==
    /\ pc = "embed"
    /\ mounted
    /\ \/ /\ pc' = "draw"
          /\ err' = err
       \/ /\ pc' = "catch"
          /\ err' = "embed"
    /\ UNCHANGED << estVars, appVars, variant, runFiles, runQuality, runFilename,
                    hasProgress, i, docCreated, pages, srcPdf, buf, escaped,
                    emitted, result, attempts, delivered >>

\* lines 515-531: addPage(A4), then drawImage on it; a throw from drawImage
\* leaves the fresh page in the document.  Line 125: addImage on the
\* current page.  The try block ends here for an image.
DrawImage ==
    /\ pc = "draw"
    /\ mounted
    /\ \/ /\ pages' = IF variant = "pdflib"
                      THEN AddPage(pages, ImagePage(i + 1, buf, Placement(variant, buf)))
                      ELSE ReplaceLast(pages, ImagePage(i + 1, buf, Placement(variant, buf)))
          /\ result' = [result EXCEPT ![i + 1] = "Succeeded"]
          /\ pc' = "progress"
          /\ err' = err
       \/ /\ pages' = IF variant = "pdflib"
                      THEN AddPage(pages, BlankPage(i + 1))
                      ELSE pages
          /\ pc' = "catch"
          /\ err' = "draw"
          /\ result' = result
    /\ UNCHANGED << estVars, appVars, variant, runFiles, runQuality, runFilename,
                    hasProgress, i, docCreated, srcPdf, buf, escaped, emitted,
                    attempts, delivered >>

\* lines 533-538 / 126-129: the catch block.  It is not itself guarded: a
\* throw from addPage / drawText / text leaves the call.
CatchError ==
    /\ pc = "catch"
    /\ mounted
    /\ \/ /\ pages' = IF variant = "pdflib"
                      THEN AddPage(pages, PlaceholderPage(i + 1, variant, Cur.name))
                      ELSE ReplaceLast(pages, PlaceholderPage(i + 1, variant, Cur.name))
          /\ result' = [result EXCEPT ![i + 1] = "Recovered"]
          /\ pc' = "progress"
          /\ escaped' = escaped
       \/ /\ pages' = IF variant = "pdflib"
                      THEN AddPage(pages, BlankPage(i + 1))
                      ELSE pages
          /\ pc' = "thrown"
          /\ escaped' = "placeholder"
          /\ result' = result
    /\ UNCHANGED << estVars, appVars, variant, runFiles, runQuality, runFilename,
                    hasProgress, i, docCreated, srcPdf, buf, err, emitted,
                    attempts, delivered >>

\* the callback called and the loop going on without the pause
ReportProgressNoPause ==
    /\ pc = "progress"
    /\ mounted
    /\ IF hasProgress
       THEN /\ emitted' = Append(emitted, Percent(i + 1, Len(runFiles)))
            /\ progress' = Percent(i + 1, Len(runFiles))
            /\ pc' = "loop"
            /\ i' = NextIndex(i)
       ELSE /\ pc' = "loop"
            /\ i' = NextIndex(i)
            /\ UNCHANGED << emitted, progress >>
    /\ UNCHANGED << estVars, files, isGenerating, sortOrder, mounted, nextId, liveUrls, alerts, variant, runFiles,
                    runQuality, runFilename, hasProgress, docCreated, pages,
                    srcPdf, buf, err, escaped, result, attempts, delivered >>

\* lines 541-546 / 132-137: if (onProgress) { onProgress(percent); await
\* timeout }.  The callback is App's (percent) => setProgress(percent).
ReportProgress ==
    /\ pc = "progress"
    /\ mounted
    /\ IF hasProgress
       THEN /\ emitted' = Append(emitted, Percent(i + 1, Len(runFiles)))
            /\ progress' = Percent(i + 1, Len(runFiles))
            /\ pc' = "yield"
            /\ i' = i
       ELSE /\ pc' = "loop"
            /\ i' = NextIndex(i)
            /\ UNCHANGED << emitted, progress >>
    /\ UNCHANGED << estVars, files, isGenerating, sortOrder, mounted, nextId, liveUrls, alerts, variant, runFiles,
                    runQuality, runFilename, hasProgress, docCreated, pages,
                    srcPdf, buf, err, escaped, result, attempts, delivered >>

\* line 545 / 136: the 10 ms timer fires and the loop goes on
YieldToUi ==
    /\ pc = "yield"
    /\ mounted
    /\ pc' = "loop"
    /\ i' = NextIndex(i)
    /\ UNCHANGED << estVars, appVars, variant, runFiles, runQuality, runFilename,
                    hasProgress, docCreated, pages, srcPdf, buf, err, escaped,
                    emitted, result, attempts, delivered >>

\* line 550: await mergedPdf.save()
SavePdf ==
    /\ pc = "save"
    /\ mounted
    /\ \/ /\ pc' = "deliver"
          /\ escaped' = escaped
       \/ /\ pc' = "thrown"
          /\ escaped' = "save"
    /\ UNCHANGED << estVars, appVars, variant, runFiles, runQuality, runFilename,
                    hasProgress, i, docCreated, pages, srcPdf, buf, err,
                    emitted, result, attempts, delivered >>

\* lines 553-564: blob, link, file name, link.click(); line 146: pdf.save(name)
Deliver ==
    /\ pc = "deliver"
    /\ mounted
    /\ \/ /\ delivered' = Append(delivered,
                 [pages |-> pages, name |-> FinalFilename(runFilename, variant)])
          /\ pc' = "returned"
          /\ escaped' = escaped
       \/ /\ pc' = "thrown"
          /\ escaped' = "deliver"
          /\ delivered' = delivered
    /\ UNCHANGED << estVars, appVars, variant, runFiles, runQuality, runFilename,
                    hasProgress, i, docCreated, pages, srcPdf, buf, err,
                    emitted, result, attempts >>

\* the images of the pipeline's runs report one of ImgSizes
DecodeImage == DecodeImageOf(ImgSizes)

RunStep ==
    \/ Enter
    \/ LoopHead
    \/ ReadFile
    \/ LoadPdf
    \/ CopyPages
    \/ DecodeImage
    \/ EmbedJpg
    \/ DrawImage
    \/ CatchError
    \/ ReportProgress
    \/ YieldToUi
    \/ SavePdf
    \/ Deliver

(***************************************************************************)
(* Spec: direct calls of either service, with every argument drawn from    *)
(* its bounded set.  The caller holds a live object URL for every file.    *)
(***************************************************************************)
InputLists ==
    UNION { { [k \in 1..n |-> MkAppFile(k, kinds[k])] : kinds \in [1..n -> FileKinds] }
            : n \in 0..MaxFiles }

UrlsOf(fs) == { fs[k].id : k \in 1..Len(fs) }

Init ==
    /\ files = <<>>
    /\ isGenerating = FALSE
    /\ progress = 0
    /\ sortOrder = "none"
    /\ mounted = TRUE
    /\ alerts = 0
    /\ variant \in Variants
    /\ runFiles \in InputLists
    /\ nextId = Len(runFiles) + 1
    /\ liveUrls = UrlsOf(runFiles)
    /\ runQuality \in PdfQuality
    /\ runFilename \in Filenames
    /\ hasProgress \in BOOLEAN
    /\ pc = "entry"
    /\ i = 0
    /\ docCreated = FALSE
    /\ pages = <<>>
    /\ srcPdf = -1
    /\ buf = NoBuf
    /\ err = "none"
    /\ escaped = "none"
    /\ emitted = <<>>
    /\ result = <<>>
    /\ attempts = <<>>
    /\ delivered = <<>>
    /\ estCount = 0
    /\ estQuality = "medium"
    /\ estimatedSize = GetPdfSizeEstimate(0, "medium")

Next == RunStep

Spec == Init /\ [][Next]_vars

\* The host fires load or error for every image, completes or fails every
\* read, parse, copy, embed and save, and fires every timer: a step of the
\* call that can be taken is taken.
LiveSpec == Init /\ [][Next]_vars /\ WF_vars(Next)


(***************************************************************************)
(* CallSpec: direct calls of either service on at most one input, or on a  *)
(* document and an image in either order, with the requested name, the     *)
(* input's name and type and the image's pixel size drawn from wider sets  *)
(* than the merge runs of Spec need.                                       *)
(***************************************************************************)
\* largest pixel width and height of the images of CallSpec
MaxDim == 4

\* requested output names: "", " ", "Report", "Report.PDF", " Report<tab>",
\* "Report.pdf ", ".pdf" and "pdf"
RequestedNames ==
    { <<>>,
      <<" ">>,
      <<"R","e","p","o","r","t">>,
      <<"R","e","p","o","r","t",".","P","D","F">>,
      <<" ","R","e","p","o","r","t","\t">>,
      <<"R","e","p","o","r","t",".","p","d","f"," ">>,
      <<".","p","d","f">>,
      <<"p","d","f">> }

\* File.type values: the document type, an image type, none, and the generic one
MimeTypes == { "application/pdf", "image/png", "", "application/octet-stream" }

\* File.name values: with an image extension, with the document extension in
\* either case, and with none
FileNames ==
    { <<"a", ".", "p", "n", "g">>,
      <<"b", ".", "p", "d", "f">>,
      <<"c", ".", "P", "D", "F">>,
      <<"d">> }

\* every pairing of a name with a type
CallKinds == { [name |-> n, type |-> t] : n \in FileNames, t \in MimeTypes }

\* a file with the document extension under an image type, and an image
\* without a type
MistypedDoc == [name |-> <<"b", ".", "p", "d", "f">>, type |-> "image/png"]

UntypedImage == [name |-> <<"a", ".", "p", "n", "g">>, type |-> ""]

CallLists ==
    { <<>> }
    \cup { << MkAppFile(1, kind) >> : kind \in CallKinds }
    \cup { << MkAppFile(1, MistypedDoc), MkAppFile(2, UntypedImage) >>,
           << MkAppFile(1, UntypedImage), MkAppFile(2, MistypedDoc) >> }

\* img.width and img.height once loaded: every pair up to MaxDim (0 = no
\* intrinsic size), and an A4-shaped image in either orientation
CallImgSizes ==
    { <<w, h>> : w \in 0..MaxDim, h \in 0..MaxDim } \cup { <<210, 297>>, <<297, 210>> }

DecodeCallImage == DecodeImageOf(CallImgSizes)

CallInit ==
    /\ files = <<>>
    /\ isGenerating = FALSE
    /\ progress = 0
    /\ sortOrder = "none"
    /\ mounted = TRUE
    /\ alerts = 0
    /\ variant \in Variants
    /\ runFiles \in CallLists
    /\ nextId = Len(runFiles) + 1
    /\ liveUrls = UrlsOf(runFiles)
    /\ runQuality \in PdfQuality
    /\ runFilename \in RequestedNames
    /\ hasProgress \in BOOLEAN
    /\ pc = "entry"
    /\ i = 0
    /\ docCreated = FALSE
    /\ pages = <<>>
    /\ srcPdf = -1
    /\ buf = NoBuf
    /\ err = "none"
    /\ escaped = "none"
    /\ emitted = <<>>
    /\ result = <<>>
    /\ attempts = <<>>
    /\ delivered = <<>>
    /\ estCount = 0
    /\ estQuality = "medium"
    /\ estimatedSize = GetPdfSizeEstimate(0, "medium")

CallNext ==
    \/ Enter
    \/ LoopHead
    \/ ReadFile
    \/ LoadPdf
    \/ CopyPages
    \/ DecodeCallImage
    \/ EmbedJpg
    \/ DrawImage
    \/ CatchError
    \/ ReportProgress
    \/ YieldToUi
    \/ SavePdf
    \/ Deliver

CallSpec == CallInit /\ [][CallNext]_vars


(***************************************************************************)
(* App: the session around the service.                                    *)
(***************************************************************************)
\* a.name.localeCompare(b.name, undefined, {numeric: true, sensitivity: 'base'})
\* over the characters file names are drawn from: case is ignored, and
\* punctuation sorts before letters
Alphabet == <<" ", "-", ".">> \o Lower

CharRank(c) == CHOOSE k \in 1..Len(Alphabet) : Alphabet[k] = ToLowerChar(c)

RECURSIVE LocaleCompare(_, _)
LocaleCompare(a, b) ==
    IF a = <<>> /\ b = <<>> THEN 0
    ELSE IF a = <<>> THEN -1
    ELSE IF b = <<>> THEN 1
    ELSE IF CharRank(Head(a)) < CharRank(Head(b)) THEN -1
    ELSE IF CharRank(Head(a)) > CharRank(Head(b)) THEN 1
    ELSE LocaleCompare(Tail(a), Tail(b))

\* the comparator of handleSort, lines 183-187
SortCompare(order, a, b) ==
    IF order = "asc" THEN LocaleCompare(a.name, b.name)
                     ELSE LocaleCompare(b.name, a.name)

\* Array.prototype.sort is stable: f goes before the first element that
\* compares greater than it
InsertSorted(sorted, f, order) ==
    LET later == { k \in 1..Len(sorted) : SortCompare(order, sorted[k], f) > 0 }
        at == IF later = {} THEN Len(sorted) + 1
              ELSE CHOOSE k \in later : \A j \in later : k <= j
    IN  SubSeq(sorted, 1, at - 1) \o <<f>> \o SubSeq(sorted, at, Len(sorted))

RECURSIVE SortFiles(_, _)
SortFiles(fs, order) ==
    IF fs = <<>> THEN <<>>
    ELSE InsertSorted(SortFiles(SubSeq(fs, 1, Len(fs) - 1), order), fs[Len(fs)], order)

\* prev.filter(f => f.id !== id)
WithoutId(fs, id) == SelectSeq(fs, LAMBDA f : f.id # id)

\* URL.revokeObjectURL for every file of fs
Revoke(urls, fs) == urls \ UrlsOf(fs)

\* line 95 and lines 103-107: the cleanup effect has no dependencies, so the
\* files it iterates over are those of the first render, useState's []
CleanupFiles == <<>>

\* file names the field may hold: the initial one (line 100) and a blank one
FieldNames == { <<"C","o","m","b","i","n","e","d">>, <<" ">> }

\* the files a selection hands over: those that carry a MIME type
PickedKinds == { kind \in FileKinds : kind.type # "" }

\* lines 150-161
HandleFilesSelected ==
    /\ mounted
    /\ \E n \in 1..MaxHandles : \E kinds \in [1..n -> PickedKinds] :
          /\ nextId + n - 1 <= MaxHandles
          /\ files' = files \o [k \in 1..n |-> MkAppFile(nextId + k - 1, kinds[k])]
          /\ liveUrls' = liveUrls \cup (nextId..(nextId + n - 1))
          /\ nextId' = nextId + n
    /\ sortOrder' = "none"
    /\ UNCHANGED << estVars, isGenerating, progress, mounted,
                    alerts, runVars >>

\* lines 163-171, from the remove button of a listed file
HandleRemoveFile ==
    /\ mounted
    /\ \E k \in 1..Len(files) :
          /\ liveUrls' = Revoke(liveUrls, <<files[k]>>)
          /\ files' = WithoutId(files, files[k].id)
    /\ UNCHANGED << estVars, isGenerating, progress, sortOrder, mounted, nextId, alerts, runVars >>

\* lines 173-177; the toolbar is rendered only for a non-empty list
HandleClearAll ==
    /\ mounted
    /\ Len(files) > 0
    /\ liveUrls' = Revoke(liveUrls, files)
    /\ files' = <<>>
    /\ sortOrder' = "none"
    /\ UNCHANGED << estVars, isGenerating, progress, mounted,
                    nextId, alerts, runVars >>

\* lines 179-190
HandleSort ==
    /\ mounted
    /\ Len(files) > 0
    /\ LET nextOrder == IF sortOrder = "asc" THEN "desc" ELSE "asc"
       IN  /\ sortOrder' = nextOrder
           /\ files' = SortFiles(files, nextOrder)
    /\ UNCHANGED << estVars, isGenerating, progress, mounted,
                    nextId, liveUrls, alerts, runVars >>

\* line 335: onReorder={setFiles}, a drag that moves an item past its neighbour
HandleReorder ==
    /\ mounted
    /\ \E k \in 1..(Len(files) - 1) :
          files' = [files EXCEPT ![k] = files[k + 1], ![k + 1] = files[k]]
    /\ UNCHANGED << estVars, isGenerating, progress, sortOrder, mounted, nextId, liveUrls, alerts, runVars >>

\* the button left enabled during a run
MergeNeverDisabled(generating) == FALSE

\* line 314: disabled={isGenerating} on the Merge button
MergeDisabled(generating) == generating

\* lines 192-196 behind the Merge button (lines 312-320: rendered for a
\* non-empty list, disabled while isGenerating).  The timer's callback
\* closes over this render's files, quality and outputFilename.  quality
\* (line 99) and outputFilename (line 100) are written only by their own
\* controls and read only here, so the click reads any value they can hold.
HandleGeneratePdf ==
    /\ mounted
    /\ Len(files) > 0
    /\ ~MergeDisabled(isGenerating)
    /\ isGenerating' = TRUE
    /\ progress' = 0
    /\ alerts' = 0
    /\ pc' = "timer"
    /\ variant' = "pdflib"
    /\ runFiles' = files
    /\ runQuality' \in PdfQuality
    /\ runFilename' \in FieldNames
    /\ hasProgress' = TRUE
    /\ i' = 0
    /\ docCreated' = FALSE
    /\ pages' = <<>>
    /\ srcPdf' = -1
    /\ buf' = NoBuf
    /\ err' = "none"
    /\ escaped' = "none"
    /\ emitted' = <<>>
    /\ result' = <<>>
    /\ attempts' = <<>>
    /\ delivered' = <<>>
    /\ UNCHANGED << estVars, files, sortOrder, mounted, nextId, liveUrls >>

\* line 196-198: the 100 ms timer fires and calls generatePdfFromFiles
TimerFire ==
    /\ mounted
    /\ pc = "timer"
    /\ pc' = "entry"
    /\ UNCHANGED << estVars, appVars, variant, runFiles, runQuality, runFilename,
                    hasProgress, i, docCreated, pages, srcPdf, buf, err,
                    escaped, emitted, result, attempts, delivered >>

\* the locals and arguments of a call that is over
RunDropped ==
    /\ pc' = "idle"
    /\ runFiles' = <<>>
    /\ runQuality' = "medium"
    /\ runFilename' = <<>>
    /\ i' = 0
    /\ docCreated' = FALSE
    /\ pages' = <<>>
    /\ srcPdf' = -1
    /\ buf' = NoBuf
    /\ err' = "none"
    /\ escaped' = "none"
    /\ emitted' = <<>>
    /\ result' = <<>>
    /\ attempts' = <<>>
    /\ delivered' = <<>>
    /\ UNCHANGED << estVars, variant, hasProgress >>

\* the error swallowed without a message
AlertsAfterSilent(outcome, shown) == shown

\* lines 204-206: the catch block shows one alert; a normal return shows none
AlertsAfter(outcome, shown) == IF outcome = "thrown" THEN shown + 1 ELSE shown

\* lines 204-210: catch (alert) and finally, once the awaited call is over
RunSettled ==
    /\ mounted
    /\ pc \in {"returned", "thrown"}
    /\ alerts' = AlertsAfter(pc, alerts)
    /\ isGenerating' = FALSE
    /\ progress' = 0
    /\ RunDropped
    /\ UNCHANGED << estVars, files, sortOrder, mounted, nextId, liveUrls >>

\* lines 103-107: the App unmounts and the cleanup of the effect runs.  The
\* session is over: its timers and pending calls are dropped with the page,
\* and no handler runs afterwards.
Unmount ==
    /\ mounted
    /\ mounted' = FALSE
    /\ liveUrls' = Revoke(liveUrls, CleanupFiles)
    /\ RunDropped
    /\ UNCHANGED << estVars, files, isGenerating, progress, sortOrder, nextId, alerts >>

AppInit ==
    /\ files = <<>>
    /\ isGenerating = FALSE
    /\ progress = 0
    /\ sortOrder = "none"
    /\ mounted = TRUE
    /\ nextId = 1
    /\ liveUrls = {}
    /\ alerts = 0
    /\ variant = "pdflib"
    /\ pc = "idle"
    /\ runFiles = <<>>
    /\ runQuality = "medium"
    /\ runFilename = <<>>
    /\ hasProgress = TRUE
    /\ i = 0
    /\ docCreated = FALSE
    /\ pages = <<>>
    /\ srcPdf = -1
    /\ buf = NoBuf
    /\ err = "none"
    /\ escaped = "none"
    /\ emitted = <<>>
    /\ result = <<>>
    /\ attempts = <<>>
    /\ delivered = <<>>
    /\ estCount = 0
    /\ estQuality = "medium"
    /\ estimatedSize = GetPdfSizeEstimate(0, "medium")

AppNext ==
    \/ HandleFilesSelected
    \/ HandleRemoveFile
    \/ HandleClearAll
    \/ HandleSort
    \/ HandleReorder
    \/ HandleGeneratePdf
    \/ TimerFire
    \/ RunSettled
    \/ Unmount
    \/ RunStep

AppSpec == AppInit /\ [][AppNext]_vars


(***************************************************************************)
(* EstimateSpec: the size line of the App.  Every render calls             *)
(* getPdfSizeEstimate with the count of listed files and the chosen tier;  *)
(* here the count and the tier change freely between renders.              *)
(***************************************************************************)
\* largest count the size line is computed for
MaxCount == 40

\* line 214: const estimatedSize = getPdfSizeEstimate(files.length, quality)
EstimateSize ==
    /\ mounted
    /\ \E c \in 0..MaxCount, q \in PdfQuality :
          /\ estCount' = c
          /\ estQuality' = q
          /\ estimatedSize' = GetPdfSizeEstimate(c, q)
    /\ UNCHANGED << appVars, runVars >>

EstimateNext == EstimateSize

EstimateSpec == AppInit /\ [][EstimateNext]_vars


(***************************************************************************)
(* Properties.                                                             *)
(***************************************************************************)
N == Len(runFiles)

\* the pages input k contributed, in document order
PagesOf(k) == SelectSeq(pages, LAMBDA p : p.owner = k)

RECURSIVE Flatten(_)
Flatten(groups) ==
    IF groups = <<>> THEN <<>> ELSE Head(groups) \o Flatten(Tail(groups))

\* the loop is over and the call is in (or past) its finisher stage
InFinisher ==
    /\ docCreated
    /\ \/ pc \in {"save", "deliver", "returned"}
       \/ pc = "thrown" /\ escaped \in {"save", "deliver"}

\* the call is over, either way
RunEnded == pc \in {"returned", "thrown"}

\* inputs whose iteration is complete
ProcessedCount == IF pc \in {"progress", "yield"} THEN i + 1 ELSE i

\* the current input's iteration has ended, normally or by leaving the call
IterationOver == pc \in {"progress", "yield", "thrown"}

\* v is 100 * k / total rounded to the nearest integer, halves up
IsRounded(v, k, total) ==
    /\ 2 * total * v <= 200 * k + total
    /\ 200 * k + total < 2 * total * (v + 1)

(* C1: once the loop of generatePdfFromFiles (or generatePdfFromSvgs) is    *)
(* over, the output document is the concatenation, in input order, of the  *)
(* page groups of inputs 1..N: every page belongs to one input, and the    *)
(* pages of input n lie after those of inputs 1..n-1 and before those of   *)
(* inputs n+1..N.  The same holds of the document built so far at every    *)
(* point of the loop.                                                      *)
C1_OrderPreserved ==
    /\ \A p \in 1..Len(pages) : pages[p].owner \in 1..N
    /\ \A p, q \in 1..Len(pages) : p < q => pages[p].owner <= pages[q].owner
    /\ pages = Flatten([k \in 1..N |-> PagesOf(k)])

\* the three-input run of the specification: image, failed image, two-page
\* document, four pages in that order, delivered
C1_Witness ==
    /\ variant = "pdflib"
    /\ pc = "returned"
    /\ N = 3
    /\ Len(pages) = 4
    /\ << pages[1].kind, pages[2].kind, pages[3].kind, pages[4].kind >>
         = << "image", "placeholder", "copied", "copied" >>
    /\ << pages[1].owner, pages[2].owner, pages[3].owner, pages[4].owner >>
         = << 1, 2, 3, 3 >>

(* C2: generatePdfFromFiles never fails because of one input: whatever     *)
(* fails while an input is processed, building the placeholder page        *)
(* included, the call goes on; an error leaves the call only from the      *)
(* finisher (serialising or delivering the output).                        *)
C2_OnlyFinisherErrorsEscape ==
    (variant = "pdflib" /\ pc = "thrown") => escaped \in {"save", "deliver"}

(* C3: an image input whose decode fails contributes exactly one A4 page   *)
(* whose text contains the input's name, and the call does not fail over   *)
(* it.                                                                     *)
C3_DecodeFailureGivesOnePlaceholder ==
    (variant = "pdflib" /\ err = "decode" /\ IterationOver) =>
        /\ pc # "thrown"
        /\ Len(PagesOf(i + 1)) = 1
        /\ PagesOf(i + 1)[1].kind = "placeholder"
        /\ PagesOf(i + 1)[1].size = "A4"
        /\ Contains(PagesOf(i + 1)[1].text, Cur.name)

\* the pages of input k are pages 1..n of its source document, in that
\* order and at their own size
IsCopyOfSource(k, n) ==
    /\ Len(PagesOf(k)) = n
    /\ \A j \in 1..Len(PagesOf(k)) :
          /\ PagesOf(k)[j].kind = "copied"
          /\ PagesOf(k)[j].src = j
          /\ PagesOf(k)[j].size = "source"

C5_ProgressSequence ==
    (hasProgress /\ N >= 1) =>
        /\ \A k \in 1..Len(emitted) :
              /\ emitted[k] \in 0..100
              /\ IsRounded(emitted[k], k, N)
        /\ \A k \in 1..(Len(emitted) - 1) : emitted[k] <= emitted[k + 1]
        /\ RunEnded => (Len(emitted) = N /\ emitted[N] = 100)

(* C6: after each input, and when the run is over, the output document has *)
(* at least as many pages as inputs were processed: every processed input  *)
(* contributed at least one page.                                          *)
C6_AtLeastOnePagePerInput ==
    (variant = "pdflib" /\ docCreated) =>
        /\ Len(pages) >= ProcessedCount
        /\ \A k \in 1..ProcessedCount : PagesOf(k) # <<>>

\* the per-input state never leaves {Pending, Succeeded, Recovered}; an
\* input is entered at most once, in list order, and has been entered once
\* when it is no longer Pending; in the finisher no input is Pending
C7_StateOk ==
    /\ \A k \in 1..Len(result) :
          /\ result[k] \in {"Pending", "Succeeded", "Recovered"}
          /\ attempts[k] \in {0, 1}
          /\ result[k] # "Pending" => attempts[k] = 1
          /\ \A j \in 1..(k - 1) :
                /\ attempts[k] = 1 => attempts[j] = 1
                /\ attempts[k] = 1 => result[j] # "Pending"
    /\ InFinisher => \A k \in 1..N : result[k] # "Pending" /\ attempts[k] = 1

\* an input that is Succeeded or Recovered stays what it is
C7_StepOk ==
    \A k \in 1..Len(result) : result[k] # "Pending" => result'[k] = result[k]

C8_EmptyRunIsNoOp ==
    N = 0 =>
        /\ pc \in {"entry", "returned"}
        /\ ~docCreated
        /\ pages = <<>>
        /\ emitted = <<>>
        /\ progress = 0
        /\ delivered = <<>>
        /\ escaped = "none"

\* the call on an empty list has returned, here for the highest tier and a
\* blank file name with a callback at hand
C8_Witness ==
    /\ N = 0
    /\ pc = "returned"
    /\ runQuality = "high"
    /\ runFilename = <<" ">>
    /\ hasProgress

\* the step of handleGeneratePdf's callback that follows the awaited call
C9_Settles == pc \in {"returned", "thrown"} /\ pc' = "idle" /\ mounted'

(* C9: when an error leaves generatePdfFromFiles nothing has been handed   *)
(* to the download step; the caller then shows one alert, and resets       *)
(* isGenerating and progress exactly as it does after a run that returned  *)
(* normally (where it shows no alert).                                     *)
C9_WholeRunFailure ==
    /\ [](pc = "thrown" => delivered = <<>>)
    /\ [][C9_Settles =>
            /\ alerts' = (IF pc = "thrown" THEN 1 ELSE 0)
            /\ isGenerating' = FALSE
            /\ progress' = 0]_vars

\* a failed run has been settled: its alert is up, the flag is down
C9_Witness ==
    /\ mounted
    /\ pc = "idle"
    /\ alerts = 1
    /\ ~isGenerating
    /\ progress = 0

(* C10: every object URL handleFilesSelected created is released: the URL  *)
(* of a file when that file leaves the working set, and the URLs of the    *)
(* files still in the working set when the session ends.                   *)
C10_HandlesReleased ==
    /\ liveUrls \subseteq UrlsOf(files)
    /\ ~mounted => liveUrls = {}

\* s[lo..hi] is s without its leading and trailing white space
IsTrim(s, lo, hi) ==
    /\ \A k \in 1..(lo - 1) : IsSpace(s[k])
    /\ \A k \in (hi + 1)..Len(s) : IsSpace(s[k])
    /\ lo <= hi => (~IsSpace(s[lo]) /\ ~IsSpace(s[hi]))

\* n ends in ".pdf", in any mix of upper and lower case
HasExtension(n) ==
    /\ Len(n) >= 4
    /\ n[Len(n) - 3] = "."
    /\ n[Len(n) - 2] \in {"p", "P"}
    /\ n[Len(n) - 1] \in {"d", "D"}
    /\ n[Len(n)] \in {"f", "F"}

\* name is what finishing the requested name req gives, with default dflt
FinishedFrom(req, name, dflt) ==
    \E lo \in 1..(Len(req) + 1), hi \in 0..Len(req) :
        /\ IsTrim(req, lo, hi)
        /\ LET trimmed == SubSeq(req, lo, hi)
               base == IF trimmed = <<>> THEN dflt ELSE trimmed
           IN  /\ name = IF HasExtension(base) THEN base
                                               ELSE base \o <<".", "p", "d", "f">>
               /\ HasExtension(trimmed) => name = trimmed

MergedDocument == <<"m","e","r","g","e","d","-","d","o","c","u","m","e","n","t">>

MergedVectors == <<"m","e","r","g","e","d","-","v","e","c","t","o","r","s">>

\* the delivered name is the requested one finished with default dflt: it
\* is not empty, ends in the extension, and finishing it again changes
\* nothing; "" gives the default with the extension, "Report" gives
\* "Report.pdf" and "Report.PDF" stays as it is
FinishedWith(dflt) ==
    \A d \in 1..Len(delivered) :
        LET name == delivered[d].name
        IN  /\ FinishedFrom(runFilename, name, dflt)
            /\ name # <<>>
            /\ HasExtension(name)
            /\ FinalFilename(name, variant) = name
            /\ runFilename = <<>> => name = dflt \o <<".", "p", "d", "f">>
            /\ runFilename = <<"R","e","p","o","r","t">> =>
                   name = <<"R","e","p","o","r","t",".","p","d","f">>
            /\ runFilename = <<"R","e","p","o","r","t",".","P","D","F">> =>
                   name = runFilename

(* C11 as claimed: the delivered file name is the requested name trimmed,  *)
(* replaced by "merged-document" when that is empty, with ".pdf" appended  *)
(* unless it already ends in ".pdf" in any case; in both services.         *)
C11_FinishedWithMergedDocument == FinishedWith(MergedDocument)

(* C11 as amended: the delivered file name is the requested name trimmed,  *)
(* replaced by the service's default when that is empty ("merged-document" *)
(* in generatePdfFromFiles, "merged-vectors" in generatePdfFromSvgs), with *)
(* ".pdf" appended unless it already ends in ".pdf" in any case; it is     *)
(* never empty, and finishing a finished name returns it unchanged.        *)
C11_FinishedWithServiceDefault ==
    FinishedWith(IF variant = "pdflib" THEN MergedDocument ELSE MergedVectors)

\* "Report.PDF" was requested and delivered as it is; no second extension
C11_Witness ==
    /\ pc = "returned"
    /\ runFilename = <<"R","e","p","o","r","t",".","P","D","F">>
    /\ Len(delivered) = 1
    /\ delivered[1].name = runFilename

\* the call is working on the current input in the document branch
InDocumentBranch == pc \in {"read", "load", "copy"}

\* the call is working on the current input in the image branch
InImageBranch == pc \in {"decode", "embed", "draw", "hung"}

\* a type field that declares nothing: absent or generic
IsGenericType(t) == t \in {"", "application/octet-stream"}

\* the kind with the extension as the fallback of the type field
DeclaredDocument(f) ==
    IF IsGenericType(f.type) THEN HasExtension(f.name)
                             ELSE f.type = "application/pdf"

(* C12 as claimed: generatePdfFromFiles sends an input to the document     *)
(* branch exactly when its type field says document, or, the type field    *)
(* being absent or generic, its name has the document extension; every     *)
(* other input goes to the image branch.  This holds for each input.       *)
C12_RoutedByTypeThenExtension ==
    variant = "pdflib" =>
        /\ InDocumentBranch => DeclaredDocument(Cur)
        /\ InImageBranch => ~DeclaredDocument(Cur)

(* C12 as amended: generatePdfFromFiles sends an input to the document     *)
(* branch exactly when its type field says document or its name has the    *)
(* document extension (in any case), whatever the type field says; every   *)
(* other input goes to the image branch.  This holds for each input.       *)
C12_RoutedByTypeOrExtension ==
    variant = "pdflib" =>
        /\ InDocumentBranch => (Cur.type = "application/pdf" \/ HasExtension(Cur.name))
        /\ InImageBranch => ~(Cur.type = "application/pdf" \/ HasExtension(Cur.name))

\* the second input is in the document branch on its extension alone, after
\* a first input that went through the image branch
C12_Witness ==
    /\ variant = "pdflib"
    /\ i = 1
    /\ InDocumentBranch
    /\ Cur.type # "application/pdf"
    /\ pages[1].kind = "image"

(* C13: a document input that cannot be parsed, or that parses but has no  *)
(* pages, contributes exactly one placeholder page whose text names the    *)
(* input, and the call does not fail over it.                              *)
C13_BadDocumentGivesOnePlaceholder ==
    (variant = "pdflib" /\ (err = "parse" \/ srcPdf = 0) /\ IterationOver) =>
        /\ pc # "thrown"
        /\ Len(PagesOf(i + 1)) = 1
        /\ PagesOf(i + 1)[1].kind = "placeholder"
        /\ Contains(PagesOf(i + 1)[1].text, Cur.name)

\* the size a text stands for, in KB
Denoted(t) ==
    IF t.unit = "KB" THEN t.whole
    ELSE 1000 * t.whole + (IF t.tenth = NoTenth THEN 0 ELSE 100 * t.tenth)

\* the per-page sizes of the claim, in KB
PerPageKB == [low |-> 150, medium |-> 400, high |-> 1200]

\* the text shown stands for count * perPage[tier]: exactly in KB below
\* 1 MB, and to the nearest tenth of a MB from 1 MB on
C14_StateOk ==
    LET total == estCount * PerPageKB[estQuality]
    IN  /\ estCount = 0 => estimatedSize = SizeText(FALSE, 0, NoTenth, "MB")
        /\ (estCount > 0 /\ total < 1000) =>
               /\ estimatedSize.unit = "KB"
               /\ estimatedSize.tenth = NoTenth
               /\ estimatedSize.whole = total
        /\ (estCount > 0 /\ total >= 1000) =>
               /\ estimatedSize.unit = "MB"
               /\ estimatedSize.tenth \in 0..9
               /\ Denoted(estimatedSize) - total \in -50..50

\* for one tier, a larger count never shows a smaller size
C14_StepOk ==
    (estQuality' = estQuality /\ estCount' >= estCount) =>
        Denoted(estimatedSize') >= Denoted(estimatedSize)

(* C14: getPdfSizeEstimate(0, tier) is "0 MB" for every tier; for a count  *)
(* above 0 the text stands for count x perPage[tier], with perPage 0.15,   *)
(* 0.4 and 1.2 MB for low, medium and high, in KB below 1 MB and in MB     *)
(* (one decimal) from 1 MB on; and for a fixed tier the size shown never   *)
(* decreases as the count grows.                                           *)
C14_SizeEstimate == [](C14_StateOk) /\ [][C14_StepOk]_vars

\* seven files at the low tier: the first count shown in MB for that tier
C14_Witness ==
    /\ estCount = 7
    /\ estQuality = "low"
    /\ estimatedSize.unit = "MB"
    /\ estimatedSize.whole = 1

\* a progress value is out only for inputs whose pages are in, and no
\* input is entered before the value of the one before it is out
C15_StateOk ==
    hasProgress =>
        /\ \A k \in 1..Len(emitted) :
              /\ result[k] # "Pending"
              /\ result[k] = "Recovered" =>
                     \E p \in 1..Len(pages) :
                        pages[p].owner = k /\ pages[p].kind = "placeholder"
        /\ \A k \in 2..Len(attempts) : attempts[k] > 0 => Len(emitted) >= k - 1

\* the value of input i + 1 goes out from the end of its iteration and
\* leaves the call waiting; the wait ends in one step that touches nothing
\* but the loop index; and the loop is re-entered only from that wait
C15_StepOk ==
    /\ emitted' # emitted =>
          /\ pc = "progress"
          /\ result[i + 1] # "Pending"
          /\ Len(emitted') = i + 1
          /\ SubSeq(emitted', 1, Len(emitted)) = emitted
          /\ pages' = pages
          /\ attempts' = attempts
          /\ pc' = "yield"
    /\ (hasProgress /\ pc = "yield") =>
          /\ pc' = "loop"
          /\ i' = i + 1
          /\ pages' = pages
          /\ attempts' = attempts
          /\ emitted' = emitted
    /\ (hasProgress /\ pc' = "loop" /\ pc \notin {"entry", "loop"}) => pc = "yield"
    /\ (hasProgress /\ attempts # <<>> /\ attempts' # attempts) =>
          (pc = "loop" /\ Len(emitted) = i)

(* C15: in a run with a progress callback, the value for input i is        *)
(* emitted only after the pages of input i (or its placeholder page) are   *)
(* in the output and before any work on input i+1; between that emission   *)
(* and the start of input i+1 the call yields to the host exactly once.    *)
C15_ProgressThenYield == [](C15_StateOk) /\ [][C15_StepOk]_vars

\* the second input is being worked on, after the value of the first went
\* out and the call yielded
C15_Witness ==
    /\ hasProgress
    /\ N >= 2
    /\ i = 1
    /\ attempts[2] = 1
    /\ pc \in {"read", "decode"}
    /\ Len(emitted) = 1

(* C16: with a host that fires load or error for every image and ends     *)
(* every read and parse, a call on one input or more ends: it hands its    *)
(* output to the download step or fails as a whole.  In particular the     *)
(* promise of processFileToImageBuffer is settled on every path through    *)
(* its handlers.                                                           *)
C16_RunEnds ==
    (pc = "entry" /\ N >= 1) ~> (delivered # <<>> \/ pc = "thrown")

\* inputs whose conversion has started and is not finished
ActiveInputs == { k \in 1..Len(result) : attempts[k] > 0 /\ result[k] = "Pending" }

\* while a run is in flight the generating flag is up; at most one input is
\* being converted; an input is entered only once the one before is done
C17_StateOk ==
    /\ (mounted /\ pc # "idle") => isGenerating
    /\ Cardinality(ActiveInputs) <= 1
    /\ \A k \in 2..Len(attempts) : attempts[k] > 0 => result[k - 1] # "Pending"

\* a run starts only when none is in flight and the flag is down; pages
\* are added only by the step working on the current input, after the
\* pages already there; a change of the working set leaves the run alone
C17_StepOk ==
    /\ (pc' = "timer" /\ pc # "timer") =>
          (pc = "idle" /\ ~isGenerating /\ isGenerating')
    /\ (pages' # pages /\ pages' # <<>>) =>
          /\ pc \in {"copy", "draw", "catch"}
          /\ ActiveInputs = {i + 1}
          /\ Len(pages') >= Len(pages)
          /\ SubSeq(pages', 1, Len(pages)) = pages
          /\ \A p \in (Len(pages) + 1)..Len(pages') : pages'[p].owner = i + 1
    /\ (files' # files \/ sortOrder' # sortOrder) =>
          UNCHANGED << pc, i, runFiles, pages, result, attempts >>

(* C17: however select, remove, clear, sort, reorder and Merge clicks      *)
(* interleave with the suspensions of a running merge, at most one input   *)
(* is being converted at any moment and only the step working on it adds   *)
(* to the output document; work on input i+1 starts only after input i is  *)
(* finished; and no second run starts while the generating flag is true.   *)
C17_OneConversionAtATime == [](C17_StateOk) /\ [][C17_StepOk]_vars

\* the working set was emptied while the run over the two files it held is
\* on its second input
C17_Witness ==
    /\ isGenerating
    /\ files = <<>>
    /\ N = 2
    /\ ActiveInputs = {2}
    /\ Len(pages) >= 1

\* the image of pixel size W x H lies on a page of size pw x ph in the
\* rectangle r as the claim has it: one scale factor for both axes, the
\* smaller of pw / W and ph / H; inside the page; against the page's edges
\* on the axis that limits; and with the same margin on either side
PlacedToFit(r, W, H, pw, ph) ==
    LET scaleW == Frac(r.width[1], r.width[2] * W)
        scaleH == Frac(r.height[1], r.height[2] * H)
    IN  /\ scaleW = scaleH
        /\ FracLeq(scaleW, <<pw, W>>)
        /\ FracLeq(scaleW, <<ph, H>>)
        /\ scaleW = Frac(pw, W) \/ scaleW = Frac(ph, H)
        /\ r.x[1] >= 0
        /\ r.y[1] >= 0
        /\ r.width[1] <= pw * r.width[2]
        /\ r.height[1] <= ph * r.height[2]
        /\ r.width = <<pw, 1>> \/ r.height = <<ph, 1>>
        /\ r.width = <<pw, 1>> => r.x = <<0, 1>>
        /\ r.height = <<ph, 1>> => r.y = <<0, 1>>
        /\ r.x = Frac(pw * r.width[2] - r.width[1], 2 * r.width[2])
        /\ r.y = Frac(ph * r.height[2] - r.height[1], 2 * r.height[2])

(* C18: every rasterized image, in either service, is placed on an A4 page *)
(* of its own with one scale factor, min(pageWidth/imgWidth,               *)
(* pageHeight/imgHeight): the rectangle lies within the page, keeps the    *)
(* image's proportions, touches the page's edges on the limiting axis and  *)
(* is centred on the other (x = (pageWidth - w)/2, y = (pageHeight - h)/2, *)
(* both >= 0).                                                             *)
C18_ImageFitsPageCentred ==
    \A p \in 1..Len(pages) :
        pages[p].kind = "image" =>
            /\ pages[p].size = "A4"
            /\ pages[p].w > 0
            /\ pages[p].h > 0
            /\ \A q \in 1..Len(pages) : pages[q].owner = pages[p].owner => q = p
            /\ PlacedToFit(pages[p].at, pages[p].w, pages[p].h,
                           PageSize(variant)[1], PageSize(variant)[2])

\* a wide image limited by the page's width and a tall one limited by its
\* height, each with a margin on the other axis, in the jsPDF service
C18_Witness ==
    /\ variant = "jspdf"
    /\ Len(pages) = 2
    /\ pages[1].kind = "image"
    /\ pages[2].kind = "image"
    /\ pages[1].at.width = <<PageSize(variant)[1], 1>>
    /\ pages[1].at.y[1] > 0
    /\ pages[2].at.height = <<PageSize(variant)[2], 1>>
    /\ pages[2].at.x[1] > 0

=============================================================================
